---------------------------- MODULE Spec2Model ----------------------------
(***************************************************************************)
(* A model of entt::basic_sparse_set (src/src/entt/entity/sparse_set.hpp). *)
(*                                                                         *)
(* The set is a record with the fields of the class (sparse, packed,       *)
(* bucket, count, reserved) plus the state of the one subscriber of its    *)
(* three hooks: slots, a parallel array kept by the hooks alone, and log,  *)
(* the hook calls made by the operation in progress together with what the *)
(* subscriber could query from the set at the moment of each call.         *)
(* Every member function is an operator from records to records, written   *)
(* statement by statement; the actions apply them to the variables.        *)
(*                                                                         *)
(* Identifier widths and the page size are scaled down (4 index bits, 1    *)
(* version bit, pages of 2 cells, a 16 bit size_type) so that pages, the   *)
(* bucket array and the null pattern are all exercised by small sets.      *)
(***************************************************************************)
EXTENDS Integers, Sequences, FiniteSets, TLC

VARIABLES sparse, packed, bucket, count, reserved, slots, log, last, heap,
          statics

vars == <<sparse, packed, bucket, count, reserved, slots, log, last, heap,
          statics>>

---------------------------------------------------------------------------
(* Bounds of the exploration.                                              *)

\* identifiers handed to the set have index bits 0 .. MaxIndex-1
MaxIndex == 3
\* reserve() is called with capacities 0 .. MaxCap
MaxCap == 4
\* ranges handed to insert, erase and remove have at most MaxRange elements
MaxRange == 2
\* the growth of packed is followed on identifiers of index 0 .. GrowthIndexes-1
GrowthIndexes == 5
\* identifiers the sorting scenario inserts
ScenarioSize == 10
\* addresses the allocator has to hand out
MaxAddr == 6

---------------------------------------------------------------------------
(* entt_traits and the null entity.                                        *)

entity_shift == 4
version_mask == 1
page_size == 2
size_bits == 16

entity_mask == 2^entity_shift - 1
SizeMod == 2^size_bits

\* every bit pattern of the identifier type
Entity == 0 .. (2^entity_shift * (version_mask + 1) - 1)

compose(i, v) == v * 2^entity_shift + (i % 2^entity_shift)
to_entity(e) == e % 2^entity_shift
to_version(e) == e \div 2^entity_shift

\* to_integral(null): every bit set
null == compose(entity_mask, version_mask)
\* a bug the comparison could have: every bit of the identifier is compared
is_null_exact(e) == e = null

\* operator==(entity, null_t): the index bits alone are compared
is_null(e) == to_entity(e) = entity_mask

\* operator==(entity, tombstone_t): the version bits alone are compared
is_tombstone(e) == to_version(e) = version_mask

\* the sentinels and the ways a comparison with a sentinel s is written
Sentinels == {"null", "tombstone"}
Forms == {"e == s", "s == e", "e != s", "s != e"}
SelfForms == {"s == s", "s != s"}

\* the comparison of the identifier e with the sentinel s, in the given form:
\* both operand orders reach the same member operator== and != negates it
compare_sentinel(s, form, e) ==
    LET equal == IF s = "null" THEN is_null(e) ELSE is_tombstone(e) IN
    IF form \in {"e == s", "s == e"} THEN equal ELSE ~ equal

\* a sentinel compared with itself: == is true and != false
compare_self(s, form) == form = "s == s"

\* static_cast<traits_type::entity_type>(n): truncation to the identifier width
entity_cast(n) == n % (2^entity_shift * (version_mask + 1))

\* the content of storage that was allocated and never constructed
Uninit == -1
\* a null alloc_pointer in the bucket array
NoPage == [i \in {} |-> null]

---------------------------------------------------------------------------
(* The object.                                                             *)

\* the record made of the current values of the variables
Self ==
    [sparse |-> sparse, packed |-> packed, bucket |-> bucket, count |-> count,
     reserved |-> reserved, slots |-> slots, log |-> log]

\* basic_sparse_set(): every member value-initialised
Empty ==
    [sparse |-> [i \in {} |-> NoPage], packed |-> [i \in {} |-> Uninit],
     bucket |-> 0, count |-> 0, reserved |-> 0,
     slots |-> [i \in {} |-> Uninit], log |-> <<>>]

\* a bug page could have: the version bits are not masked off
page_unmasked(entt) == entt \div page_size

page(entt) == to_entity(entt) \div page_size
offset(entt) == entt % page_size

extent(S) == S.bucket * page_size
size(S) == S.count
capacity(S) == S.reserved

\* a bug contains could have: the packed entry is compared with entt
contains_same_version(S, entt) ==
    LET curr == page(entt) IN
    /\ curr < S.bucket
    /\ S.sparse[curr] # NoPage
    /\ ~ is_null(S.sparse[curr][offset(entt)])
    /\ S.packed[S.sparse[curr][offset(entt)]] = entt

contains(S, entt) ==
    LET curr == page(entt) IN
    /\ curr < S.bucket
    /\ S.sparse[curr] # NoPage
    /\ ~ is_null(S.sparse[curr][offset(entt)])

\* defined for a contained entt only (ENTT_ASSERT)
index(S, entt) == S.sparse[page(entt)][offset(entt)]

\* at(pos)
at(S, pos) == IF pos < S.count THEN S.packed[pos] ELSE null

\* the sequence begin() .. end(): sparse_set_iterator starts at index = count and
\* dereferences (*packed)[index - 1]
begin_end(S) == [k \in 1 .. S.count |-> S.packed[S.count - k]]

\* data(): the packed array
data(S) == S.packed

\* a bug begin() could have: the iterator starts at the capacity
begin_at_capacity(S) == S.reserved

\* an iterator is its index member: begin() starts at count, end() at 0,
\* operator++ decrements the index and operator* reads (*packed)[index - 1]
begin(S) == S.count
end(S) == 0
iterator_increment(it) == it - 1
iterator_dereference(S, it) == S.packed[it - 1]
iterator_decrement(it) == it + 1
\* it - value is it + -value, and += subtracts from index
iterator_minus(it, value) == it + value

find(S, entt) ==
    IF contains(S, entt)
    THEN iterator_decrement(iterator_minus(end(S), index(S, entt)))
    ELSE end(S)

\* the reverse iterators are pointers into packed, here offsets from data()
rbegin(S) == 0
rend(S) == rbegin(S) + S.count

\* the elements a loop for(it = first; it != last; ++it) reads with *it
RECURSIVE traverse(_, _, _)
traverse(S, first, last_) ==
    IF first # last_
    THEN <<iterator_dereference(S, first)>>
             \o traverse(S, iterator_increment(first), last_)
    ELSE <<>>

\* the same loop over the pointers rbegin() .. rend()
RECURSIVE reverse_traverse(_, _, _)
reverse_traverse(S, first, last_) ==
    IF first # last_
    THEN <<data(S)[first]>> \o reverse_traverse(S, first + 1, last_)
    ELSE <<>>

---------------------------------------------------------------------------
(* The hooks, as implemented by the subscriber.                            *)

\* the parallel array with slots i and j exchanged
swap_slots(a, i, j) ==
    [k \in DOMAIN a |-> IF k = i THEN a[j] ELSE IF k = j THEN a[i] ELSE a[k]]

\* what the log holds for ud when the hook called has no such parameter
NoUd == -1

NoHook ==
    [hook |-> "", entity |-> null, ud |-> NoUd, lhs |-> 0, rhs |-> 0,
     size |-> 0, contained |-> FALSE, pos |-> 0, entry |-> null]

swap_at(S, lhs, rhs) ==
    [S EXCEPT !.slots = swap_slots(S.slots, lhs, rhs),
              !.log = Append(S.log, [NoHook EXCEPT !.hook = "swap_at",
                                                   !.lhs = lhs, !.rhs = rhs,
                                                   !.size = S.count])]

\* the subscriber notes, beside the arguments, what it can query at that
\* moment: size(), and contains(), index() and at() for the entity in question;
\* swap_and_pop asks about the entity of the about_to_erase call before it
swap_and_pop(S, pos) ==
    LET prev == IF S.log = <<>> THEN NoHook ELSE S.log[Len(S.log)]
        n1 == Cardinality(DOMAIN S.slots) - 1
    IN  [S EXCEPT !.slots = [k \in 0 .. n1 - 1 |->
                                IF k = pos THEN S.slots[n1] ELSE S.slots[k]],
                  !.log = Append(S.log, [NoHook EXCEPT
                                !.hook = "swap_and_pop",
                                !.entity = prev.entity,
                                !.pos = pos,
                                !.size = S.count,
                                !.contained = contains(S, prev.entity)])]

about_to_erase(S, entity, ud) ==
    [S EXCEPT !.log = Append(S.log, [NoHook EXCEPT
                                !.hook = "about_to_erase",
                                !.entity = entity,
                                !.ud = ud,
                                !.pos = IF contains(S, entity)
                                        THEN index(S, entity) ELSE SizeMod - 1,
                                !.entry = IF contains(S, entity)
                                          THEN at(S, index(S, entity)) ELSE null,
                                !.size = S.count,
                                !.contained = contains(S, entity)])]

\* the subscriber's own part of emplace/insert: one slot per entity, holding
\* the value attached to it (the identifier as it was handed in)
push_slot(S, entt) ==
    LET n == Cardinality(DOMAIN S.slots) IN
    [S EXCEPT !.slots = [k \in 0 .. n |-> IF k = n THEN entt ELSE S.slots[k]]]

---------------------------------------------------------------------------
(* Private members.                                                        *)

resize_packed(S, req) ==
    LET sz == IF req < S.count THEN req ELSE S.count
        mem == [k \in 0 .. req - 1 |-> IF k < sz THEN S.packed[k] ELSE Uninit]
    IN  [S EXCEPT !.packed = mem, !.reserved = req, !.count = sz]

grow_packed_if_required(S, req) ==
    IF S.reserved < req
    THEN LET sz == (S.count * 3) \div 2
         IN  resize_packed(S, IF sz < req THEN req ELSE sz)
    ELSE S

push_packed(S, entt) ==
    [S EXCEPT !.packed[S.count] = entt, !.count = S.count + 1]

\* lines 235-254: the bucket array grows to hold position pos
prepare_bucket(S, pos) ==
    IF ~ (pos < S.bucket)
    THEN LET sz == pos + 1
             mem == [k \in 0 .. sz - 1 |->
                        IF k < S.bucket THEN S.sparse[k] ELSE NoPage]
         IN  [S EXCEPT !.sparse = mem, !.bucket = sz]
    ELSE S

\* lines 256-266: the page at pos is allocated and filled with null
prepare_page(S, pos) ==
    IF S.sparse[pos] = NoPage
    THEN [S EXCEPT !.sparse[pos] = [k \in 0 .. page_size - 1 |-> null]]
    ELSE S

prepare_sparse_for(S, pos) == prepare_page(prepare_bucket(S, pos), pos)

clear_sparse(S) ==
    IF S.bucket # 0
    THEN [S EXCEPT !.sparse = [i \in {} |-> NoPage], !.bucket = 0]
    ELSE S

---------------------------------------------------------------------------
(* Public members.                                                         *)

\* a bug emplace could have: the cell takes the version bits of entt
assign_cell_versioned(S, entt) ==
    LET T == prepare_sparse_for(S, page(entt)) IN
    [T EXCEPT !.sparse[page(entt)][offset(entt)] =
                  compose(entity_cast(T.count), to_version(entt))]

\* prepare_sparse_for(page(entt))[offset(entt)] = entity_type{count}
assign_cell(S, entt) ==
    LET T == prepare_sparse_for(S, page(entt)) IN
    [T EXCEPT !.sparse[page(entt)][offset(entt)] = entity_cast(T.count)]

\* a bug emplace could have: the cell is written after the entity is pushed
emplace_cell_after_push(S, entt) ==
    LET T == push_packed(grow_packed_if_required(
                             prepare_sparse_for(S, page(entt)), S.count + 1), entt)
    IN  [T EXCEPT !.sparse[page(entt)][offset(entt)] = entity_cast(T.count)]

emplace(S, entt) ==
    push_packed(grow_packed_if_required(assign_cell(S, entt), S.count + 1), entt)

\* the allocations emplace can make, in the order it reaches them: the bucket
\* array (line 237), the page (lines 258, 260), the packed buffer (line 178)
AllocPoints == {"bucket", "page", "packed"}

\* emplace(entt) reaches the allocation at point
allocates(S, entt, point) ==
    CASE point = "bucket" -> ~ (page(entt) < S.bucket)
      [] point = "page" ->
            prepare_bucket(S, page(entt)).sparse[page(entt)] = NoPage
      [] point = "packed" -> S.reserved < S.count + 1

\* the object emplace(entt) leaves behind when the allocation at point throws:
\* every statement before the allocation has run, none after it
emplace_throw(S, entt, point) ==
    CASE point = "bucket" -> S
      [] point = "page" -> prepare_bucket(S, page(entt))
      [] point = "packed" -> assign_cell(S, entt)

\* insert(first, last) with the range given as a sequence
RECURSIVE insert_loop(_, _, _)
insert_loop(S, range, k) ==
    IF k <= Len(range)
    THEN insert_loop(push_packed(assign_cell(S, range[k]), range[k]), range, k + 1)
    ELSE S

\* a bug insert could have: the range is walked from last to first
insert_backwards(S, range) ==
    insert_loop(grow_packed_if_required(S, S.count + Len(range)),
                [k \in 1 .. Len(range) |-> range[Len(range) + 1 - k]], 1)

insert(S, range) ==
    insert_loop(grow_packed_if_required(S, S.count + Len(range)), range, 1)

\* a bug erase could have: the cell is nullified before the tail is redirected
erase_nullify_first(S, entt, ud) ==
    LET A == about_to_erase(S, entt, ud)
        pos == A.sparse[page(entt)][offset(entt)]
        cnt == A.count - 1
        other == A.packed[cnt]
        B == [A EXCEPT !.count = cnt,
                       !.sparse[page(entt)][offset(entt)] = null]
        C == [B EXCEPT !.sparse[page(other)][offset(other)] = pos]
        D == [C EXCEPT !.packed[cnt] = Uninit]
        E == [D EXCEPT !.packed[pos] = IF pos = cnt THEN Uninit ELSE other]
    IN  swap_and_pop(E, pos)

\* a bug erase could have: about_to_erase is called after the swap-and-pop
erase_hook_late(S, entt, ud) ==
    LET pos == S.sparse[page(entt)][offset(entt)]
        cnt == S.count - 1
        other == S.packed[cnt]
        B == [S EXCEPT !.count = cnt,
                       !.sparse[page(other)][offset(other)] = pos]
        C == [B EXCEPT !.sparse[page(entt)][offset(entt)] = null]
        D == [C EXCEPT !.packed[cnt] = Uninit]
        E == [D EXCEPT !.packed[pos] = IF pos = cnt THEN Uninit ELSE other]
    IN  swap_and_pop(about_to_erase(E, entt, ud), pos)

\* a bug erase could have: the tail is popped without touching the index
erase_tail_shortcut(S, entt, ud) ==
    LET A == about_to_erase(S, entt, ud)
        pos == A.sparse[page(entt)][offset(entt)]
        cnt == A.count - 1
        other == A.packed[cnt]
        B == [A EXCEPT !.count = cnt,
                       !.sparse[page(other)][offset(other)] = pos]
        C == IF pos = cnt THEN B
             ELSE [B EXCEPT !.sparse[page(entt)][offset(entt)] = null]
        D == [C EXCEPT !.packed[cnt] = Uninit]
        E == [D EXCEPT !.packed[pos] = IF pos = cnt THEN Uninit ELSE other]
    IN  swap_and_pop(E, pos)

erase(S, entt, ud) ==
    LET A == about_to_erase(S, entt, ud)
        \* auto &ref = sparse[page(entt)][offset(entt)]; pos = to_integral(ref)
        pos == A.sparse[page(entt)][offset(entt)]
        \* other = packed[--count]
        cnt == A.count - 1
        other == A.packed[cnt]
        \* sparse[page(other)][offset(other)] = ref
        B == [A EXCEPT !.count = cnt,
                       !.sparse[page(other)][offset(other)] = pos]
        \* ref = null
        C == [B EXCEPT !.sparse[page(entt)][offset(entt)] = null]
        \* destroy(packed + count); packed[pos] = other: the popped cell stays
        \* destroyed storage also when pos is that cell
        D == [C EXCEPT !.packed[cnt] = Uninit]
        E == [D EXCEPT !.packed[pos] = IF pos = cnt THEN Uninit ELSE other]
    IN  swap_and_pop(E, pos)

\* a bug the range erase could have: ud is not handed on and erase takes its
\* default, nullptr
RECURSIVE erase_range_default_ud(_, _, _, _)
erase_range_default_ud(S, range, k, ud) ==
    IF k <= Len(range)
    THEN erase_range_default_ud(erase(S, range[k], 0), range, k + 1, ud)
    ELSE S

\* erase(first, last, ud) with the range given as a sequence
RECURSIVE erase_range(_, _, _, _)
erase_range(S, range, k, ud) ==
    IF k <= Len(range)
    THEN erase_range(erase(S, range[k], ud), range, k + 1, ud)
    ELSE S

\* a bug remove could have: the stored identifier is compared, version included
remove_by_identity(S, entt, ud) ==
    IF contains(S, entt) /\ S.packed[index(S, entt)] = entt
    THEN erase(S, entt, ud)
    ELSE S

remove(S, entt, ud) == IF contains(S, entt) THEN erase(S, entt, ud) ELSE S

\* the value remove(entt, ud) returns, true being 1 as found += remove(...)
\* reads it
remove_ret(S, entt) == IF contains(S, entt) THEN 1 ELSE 0

\* remove(first, last, ud) with the range given as a sequence
RECURSIVE remove_range(_, _, _, _)
remove_range(S, range, k, ud) ==
    IF k <= Len(range)
    THEN remove_range(remove(S, range[k], ud), range, k + 1, ud)
    ELSE S

\* the value remove(first, last, ud) returns
RECURSIVE remove_range_ret(_, _, _, _, _)
remove_range_ret(S, range, k, ud, found) ==
    IF k <= Len(range)
    THEN remove_range_ret(remove(S, range[k], ud), range, k + 1, ud,
                          (found + remove_ret(S, range[k])) % SizeMod)
    ELSE found

\* a bug swap could have: the hook is not called
swap_without_hook(S, lhs, rhs) ==
    LET from == index(S, lhs)
        to == index(S, rhs)
        A == [S EXCEPT !.sparse[page(lhs)][offset(lhs)] = to]
        B == [A EXCEPT !.sparse[page(rhs)][offset(rhs)] = from]
        C == [B EXCEPT !.packed[from] = S.packed[to]]
    IN  [C EXCEPT !.packed[to] = S.packed[from]]

swap(S, lhs, rhs) ==
    LET from == index(S, lhs)
        to == index(S, rhs)
        \* std::swap of the two cells, then of the two packed entries
        A == [S EXCEPT !.sparse[page(lhs)][offset(lhs)] = to]
        B == [A EXCEPT !.sparse[page(rhs)][offset(rhs)] = from]
        C == [B EXCEPT !.packed[from] = S.packed[to]]
        D == [C EXCEPT !.packed[to] = S.packed[from]]
    IN  swap_at(D, from, to)

\* the comparison function objects handed to sort: each a strict weak ordering
Compare == {"less", "greater", "version_less"}

compare(cmp, lhs, rhs) ==
    CASE cmp = "less" -> lhs < rhs
      [] cmp = "greater" -> lhs > rhs
      [] cmp = "version_less" -> to_version(lhs) < to_version(rhs)
      [] cmp = "index_less" -> to_entity(lhs) < to_entity(rhs)
      [] cmp = "index_greater" -> to_entity(lhs) > to_entity(rhs)

\* a bug sort_n could have: algo is called on the range packed .. packed + length
std_sort_forward(arr, length, cmp) ==
    LET perms == {f \in [0 .. length - 1 -> 0 .. length - 1] :
                     \A i, j \in 0 .. length - 1 : i # j => f[i] # f[j]}
        apply(f) == [k \in DOMAIN arr |-> IF k < length THEN arr[f[k]] ELSE arr[k]]
        sorted(a) == \A i \in 0 .. length - 2 : ~ compare(cmp, a[i + 1], a[i])
    IN  {a \in {apply(f) : f \in perms} : sorted(a)}

\* the outcomes of algo(make_reverse_iterator(packed + length),
\* make_reverse_iterator(packed), compare): std::sort is not stable, so every
\* arrangement of the first length entries that is sorted when read from
\* position length-1 down to position 0
std_sort(arr, length, cmp) ==
    LET perms == {f \in [0 .. length - 1 -> 0 .. length - 1] :
                     \A i, j \in 0 .. length - 1 : i # j => f[i] # f[j]}
        apply(f) == [k \in DOMAIN arr |-> IF k < length THEN arr[f[k]] ELSE arr[k]]
        sorted(a) == \A i \in 0 .. length - 2 : ~ compare(cmp, a[i], a[i + 1])
    IN  {a \in {apply(f) : f \in perms} : sorted(a)}

\* a bug sort_n could have, seen on entries that cmp orders totally: algo is
\* called on the range packed .. packed + length
std_sort_total_forward(arr, length, cmp) ==
    LET entries == {arr[j] : j \in 0 .. length - 1}
        before(x) == Cardinality({y \in entries : compare(cmp, y, x)})
    IN  [k \in DOMAIN arr |->
            IF k < length THEN CHOOSE x \in entries : before(x) = k ELSE arr[k]]

\* the outcome of the same call of algo when cmp orders the first length
\* entries totally: the entry that n others precede ends n places after the
\* start of the reversed range, at position length - 1 - n
std_sort_total(arr, length, cmp) ==
    LET entries == {arr[j] : j \in 0 .. length - 1}
        before(x) == Cardinality({y \in entries : compare(cmp, y, x)})
    IN  [k \in DOMAIN arr |->
            IF k < length
            THEN CHOOSE x \in entries : before(x) = length - 1 - k
            ELSE arr[k]]

\* a bug the loop could have: the hook gets the pair (curr, next)
RECURSIVE cycle_walk_curr_next(_, _, _)
cycle_walk_curr_next(S, curr, next) ==
    IF curr # next
    THEN LET idx == index(S, S.packed[next])
             entt == S.packed[curr]
             A == swap_at(S, curr, next)
             B == [A EXCEPT !.sparse[page(entt)][offset(entt)] = entity_cast(curr)]
         IN  cycle_walk_curr_next(B, next, idx)
    ELSE S

\* the while loop of sort_n (lines 711-720)
RECURSIVE cycle_walk(_, _, _)
cycle_walk(S, curr, next) ==
    IF curr # next
    THEN LET idx == index(S, S.packed[next])
             entt == S.packed[curr]
             A == swap_at(S, next, idx)
             B == [A EXCEPT !.sparse[page(entt)][offset(entt)] = entity_cast(curr)]
         IN  cycle_walk(B, next, idx)
    ELSE S

\* the for loop of sort_n (lines 707-721)
RECURSIVE sort_loop(_, _, _)
sort_loop(S, pos, length) ==
    IF pos < length
    THEN sort_loop(cycle_walk(S, pos, index(S, S.packed[pos])), pos + 1, length)
    ELSE S

\* sorted is the outcome of the call of algo, one of std_sort(...)
sort_n(S, length, sorted) == sort_loop([S EXCEPT !.packed = sorted], 0, length)

sort(S, sorted) == sort_n(S, S.count, sorted)

\* a bug the loop could have: pos moves on only after a swap
RECURSIVE respect_loop_sticky(_, _, _, _)
respect_loop_sticky(S, other, pos, from) ==
    IF pos # 0 /\ from # 0
    THEN LET entt == other.packed[from - 1] IN
         IF contains(S, entt) /\ entt # S.packed[pos]
         THEN respect_loop_sticky(swap(S, S.packed[pos], entt), other,
                                  (pos - 1) % SizeMod, from - 1)
         ELSE respect_loop_sticky(S, other, pos, from - 1)
    ELSE S

\* the loop of respect: from is the index of the iterator on other, whose
\* end() has index 0; pos is a size_type
RECURSIVE respect_loop(_, _, _, _)
respect_loop(S, other, pos, from) ==
    IF pos # 0 /\ from # 0
    THEN LET entt == other.packed[from - 1] IN
         IF contains(S, entt)
         THEN LET A == IF entt # S.packed[pos]
                       THEN swap(S, S.packed[pos], entt)
                       ELSE S
              IN  respect_loop(A, other, (pos - 1) % SizeMod, from - 1)
         ELSE respect_loop(S, other, pos, from - 1)
    ELSE S

\* a bug respect could have: other is walked from rbegin() to rend()
RECURSIVE respect_loop_rbegin(_, _, _, _)
respect_loop_rbegin(S, other, pos, from) ==
    IF pos # 0 /\ from # other.count
    THEN LET entt == other.packed[from] IN
         IF contains(S, entt)
         THEN LET A == IF entt # S.packed[pos]
                       THEN swap(S, S.packed[pos], entt)
                       ELSE S
              IN  respect_loop_rbegin(A, other, (pos - 1) % SizeMod, from + 1)
         ELSE respect_loop_rbegin(S, other, pos, from + 1)
    ELSE S

respect_rbegin(S, other) ==
    respect_loop_rbegin(S, other, (S.count - 1) % SizeMod, 0)

respect(S, other) == respect_loop(S, other, (S.count - 1) % SizeMod, other.count)

\* a bug the loop could have: the element erased is always the first of packed
RECURSIVE erase_iter_front(_, _, _)
erase_iter_front(S, idx, ud) ==
    IF idx # 0
    THEN erase_iter_front(erase(S, S.packed[0], ud), idx - 1, ud)
    ELSE S

\* erase(begin(), end(), ud): first is an iterator on this very set, idx its
\* index; ++first decrements it and *first is packed[idx - 1]
RECURSIVE erase_iter(_, _, _)
erase_iter(S, idx, ud) ==
    IF idx # 0
    THEN erase_iter(erase(S, S.packed[idx - 1], ud), idx - 1, ud)
    ELSE S

\* a bug clear could have: the pages are released with the last element
clear_and_release(S, ud) == clear_sparse(erase_iter(S, S.count, ud))

clear(S, ud) == erase_iter(S, S.count, ud)

reserve(S, cap) == IF cap > S.reserved THEN resize_packed(S, cap) ELSE S

\* a bug shrink_to_fit could have: the pages are released whatever the size
shrink_to_fit_unconditional(S) == clear_sparse(resize_packed(S, S.count))

shrink_to_fit(S) ==
    LET A == resize_packed(S, S.count) IN
    IF A.count = 0 THEN clear_sparse(A) ELSE A

---------------------------------------------------------------------------
(* family: the generator of type identifiers.                              *)

\* the specializations of family the program uses and the types it asks about
Families == {"f", "g"}
Types == {"A", "B", "C"}

\* the function-local statics before any call: each specialization has its
\* counter value{} of next and one uninitialized value per type; requested is
\* the observer's record of the types in the order of their first request
NoStatics ==
    [value |-> [fam \in Families |-> 0],
     type |-> [fam \in Families |-> [T \in Types |-> Uninit]],
     requested |-> [fam \in Families |-> <<>>]]

\* a bug next could have: return ++value
family_next_preincrement(F, fam) ==
    [ret |-> F.value[fam] + 1, statics |-> [F EXCEPT !.value[fam] = @ + 1]]

\* next: return value++
family_next(F, fam) ==
    [ret |-> F.value[fam], statics |-> [F EXCEPT !.value[fam] = @ + 1]]

\* type<Type>: the static is initialized by the first call that reaches it
family_type(F, fam, T) ==
    LET n == family_next(F, fam)
        G == IF F.type[fam][T] = Uninit
             THEN [n.statics EXCEPT !.type[fam][T] = n.ret]
             ELSE F
    IN  [ret |-> G.type[fam][T], statics |-> G]

---------------------------------------------------------------------------
(* The set objects of a program and their buffers, at the level of         *)
(* pointers: what the constructors, the destructor and the allocate and    *)
(* deallocate calls of the member functions do.                            *)

nullptr == 0
Addr == 1 .. MaxAddr

\* the set objects of the program
Sets == {"a", "b"}

\* the data members of an object; alive is false outside its lifetime
NoObject ==
    [alive |-> FALSE, sparse |-> nullptr, packed |-> nullptr,
     bucket |-> 0, count |-> 0, reserved |-> 0]

\* the state of the program: mem holds the allocated buffers by address, obj
\* the objects, freed the deallocate calls of the call in progress
NoHeap ==
    [mem |-> [a \in {} |-> <<>>], obj |-> [s \in Sets |-> NoObject], freed |-> <<>>]

\* the address the next allocate call returns
fresh(H) ==
    CHOOSE a \in Addr \ DOMAIN H.mem : \A b \in Addr \ DOMAIN H.mem : a <= b

\* allocate returns fresh(H) and the buffer there holds contents
allocate(H, contents) ==
    [H EXCEPT !.mem = [a \in DOMAIN H.mem \cup {fresh(H)} |->
                          IF a = fresh(H) THEN contents ELSE H.mem[a]]]

deallocate(H, ptr) ==
    [H EXCEPT !.mem = [a \in DOMAIN H.mem \ {ptr} |-> H.mem[a]],
              !.freed = Append(H.freed, [ptr |-> ptr, live |-> ptr \in DOMAIN H.mem])]

\* the buffers an object refers to
Buffers(H, who) ==
    LET o == H.obj[who] IN
    (IF o.reserved # 0 THEN {o.packed} ELSE {})
        \cup (IF o.bucket # 0 THEN {o.sparse} ELSE {})
        \cup ({H.mem[o.sparse][k] : k \in 0 .. o.bucket - 1} \ {nullptr})

\* the object as the member functions of the sections above see it: the
\* arrays its pointers lead to
value(H, who) ==
    LET o == H.obj[who] IN
    [sparse |-> [k \in 0 .. o.bucket - 1 |->
                    IF H.mem[o.sparse][k] = nullptr
                    THEN NoPage
                    ELSE H.mem[H.mem[o.sparse][k]]],
     packed |-> IF o.reserved # 0 THEN H.mem[o.packed] ELSE Empty.packed,
     bucket |-> o.bucket, count |-> o.count, reserved |-> o.reserved,
     slots |-> Empty.slots, log |-> <<>>]

\* the writes of a member function that allocates nothing, made through the
\* pointers of the object: V is the object as the function leaves it
store(H, who, V) ==
    LET o == H.obj[who]
        pages == {k \in 0 .. o.bucket - 1 : H.mem[o.sparse][k] # nullptr}
    IN  [H EXCEPT !.mem = [a \in DOMAIN H.mem |->
                    IF o.reserved # 0 /\ a = o.packed
                    THEN V.packed
                    ELSE IF \E k \in pages : H.mem[o.sparse][k] = a
                    THEN V.sparse[CHOOSE k \in pages : H.mem[o.sparse][k] = a]
                    ELSE H.mem[a]],
                  !.obj[who].count = V.count]

heap_resize_packed(H, who, req) ==
    LET o == H.obj[who]
        sz == IF req < o.count THEN req ELSE o.count
        contents == [k \in 0 .. req - 1 |->
                        IF o.reserved # 0 /\ k < sz THEN H.mem[o.packed][k] ELSE Uninit]
        mem == IF req # 0 THEN fresh(H) ELSE nullptr
        A == IF req # 0 THEN allocate(H, contents) ELSE H
        B == IF o.reserved # 0 THEN deallocate(A, o.packed) ELSE A
    IN  [B EXCEPT !.obj[who].packed = mem,
                  !.obj[who].reserved = req,
                  !.obj[who].count = sz]

heap_grow_packed_if_required(H, who, req) ==
    LET o == H.obj[who] IN
    IF o.reserved < req
    THEN LET sz == (o.count * 3) \div 2
         IN  heap_resize_packed(H, who, IF sz < req THEN req ELSE sz)
    ELSE H

heap_push_packed(H, who, entt) ==
    LET o == H.obj[who] IN
    [H EXCEPT !.mem[o.packed][o.count] = entt, !.obj[who].count = o.count + 1]

\* the loop of clear_sparse: every entry of the bucket array is deallocated
RECURSIVE deallocate_pages(_, _, _)
deallocate_pages(H, who, next) ==
    IF next < H.obj[who].bucket
    THEN deallocate_pages(deallocate(H, H.mem[H.obj[who].sparse][next]), who, next + 1)
    ELSE H

heap_clear_sparse(H, who) ==
    IF H.obj[who].bucket # 0
    THEN [deallocate(deallocate_pages(H, who, 0), H.obj[who].sparse)
             EXCEPT !.obj[who].bucket = 0]
    ELSE H

heap_clear_packed(H, who) ==
    IF H.obj[who].reserved # 0 THEN deallocate(H, H.obj[who].packed) ELSE H

heap_prepare_sparse_for(H, who, pos) ==
    LET o == H.obj[who]
        A == IF ~ (pos < o.bucket)
             THEN LET sz == pos + 1
                      mem == [k \in 0 .. sz - 1 |->
                                 IF k < o.bucket THEN H.mem[o.sparse][k] ELSE nullptr]
                      X == allocate(H, mem)
                      Y == IF o.bucket # 0 THEN deallocate(X, o.sparse) ELSE X
                  IN  [Y EXCEPT !.obj[who].sparse = fresh(H), !.obj[who].bucket = sz]
             ELSE H
        arr == A.obj[who].sparse
    IN  IF A.mem[arr][pos] = nullptr
        THEN [allocate(A, [k \in 0 .. page_size - 1 |-> null])
                 EXCEPT !.mem[arr][pos] = fresh(A)]
        ELSE A

heap_emplace(H, who, entt) ==
    LET A == heap_prepare_sparse_for(H, who, page(entt))
        ref == A.mem[A.obj[who].sparse][page(entt)]
        B == [A EXCEPT !.mem[ref][offset(entt)] = entity_cast(A.obj[who].count)]
        C == heap_grow_packed_if_required(B, who, B.obj[who].count + 1)
    IN  heap_push_packed(C, who, entt)

heap_erase(H, who, entt) == store(H, who, erase(value(H, who), entt, 0))

heap_shrink_to_fit(H, who) ==
    LET A == heap_resize_packed(H, who, H.obj[who].count) IN
    IF A.obj[who].count = 0 THEN heap_clear_sparse(A, who) ELSE A

\* basic_sparse_set(): an object begins its lifetime with every member zero
constructor(H, who) == [H EXCEPT !.obj[who] = [NoObject EXCEPT !.alive = TRUE]]

destructor(H, who) ==
    [heap_clear_packed(heap_clear_sparse(H, who), who) EXCEPT !.obj[who] = NoObject]

\* who.member = std::exchange(other.member, new)
exchange(H, who, other, member, new) ==
    LET old == H.obj[other][member] IN
    [[H EXCEPT !.obj[other][member] = new] EXCEPT !.obj[who][member] = old]

\* the five exchanges of the move constructor and of the move assignment
exchange_members(H, who, other) ==
    LET A == exchange(H, who, other, "sparse", nullptr)
        B == exchange(A, who, other, "packed", nullptr)
        C == exchange(B, who, other, "bucket", 0)
        D == exchange(C, who, other, "count", 0)
    IN  exchange(D, who, other, "reserved", 0)

\* a bug the move constructor could have: the members are copied and the
\* source keeps them
move_constructor_copy(H, who, other) == [H EXCEPT !.obj[who] = H.obj[other]]

move_constructor(H, who, other) ==
    exchange_members([H EXCEPT !.obj[who].alive = TRUE], who, other)

move_assignment(H, who, other) == exchange_members(H, who, other)

---------------------------------------------------------------------------
(* Actions.                                                                *)

\* the identifiers callers hold: one live generation per index (index i in its
\* generation i mod 2), none of them null
Valid == {compose(i, i % (version_mask + 1)) : i \in 0 .. MaxIndex - 1}

\* the identifiers callers query and erase with: every generation of those
\* indexes, and null
Args == {e \in Entity : to_entity(e) < MaxIndex} \cup {null}

\* the values of the opaque ud pointer (0 is nullptr)
UserData == {0, 1}

\* no two elements of the range have the same index bits
Distinct(range) ==
    \A i, j \in 1 .. Len(range) :
        i # j => to_entity(range[i]) # to_entity(range[j])

SeqsUpTo(S, n) == UNION {[1 .. k -> S] : k \in 0 .. n}

\* the ranges handed to insert, erase and remove
Ranges == SeqsUpTo(Valid, MaxRange)

\* the sets handed to respect, each given by the order of its insertions
Others == {r \in SeqsUpTo(Args \ {null}, MaxIndex) : Distinct(r)}

\* the set a caller builds by emplacing the elements of range in order
RECURSIVE build_loop(_, _, _)
build_loop(S, range, k) ==
    IF k <= Len(range) THEN build_loop(emplace(S, range[k]), range, k + 1) ELSE S

build(range) == build_loop(Empty, range, 1)

\* the subscriber's slots for an inserted range
RECURSIVE push_slots(_, _, _)
push_slots(S, range, k) ==
    IF k <= Len(range) THEN push_slots(push_slot(S, range[k]), range, k + 1) ELSE S

\* a call: the member function, its arguments and the value it returned
Op(name, args, cmp) ==
    [op |-> name, args |-> args, cmp |-> cmp, ret |-> 0, ud |-> NoUd,
     who |-> "", other |-> ""]

\* the call was given the opaque pointer ud
Passing(op, ud) == [op EXCEPT !.ud = ud]

\* the call was made on the object who, with the object other as argument
On(op, who, other) == [op EXCEPT !.who = who, !.other = other]

Returning(op, result) == [op EXCEPT !.ret = result]

\* an operation returns: its result becomes the state
Commit(T, op) ==
    /\ sparse' = T.sparse
    /\ packed' = T.packed
    /\ bucket' = T.bucket
    /\ count' = T.count
    /\ reserved' = T.reserved
    /\ slots' = T.slots
    /\ log' = T.log
    /\ last' = op
    /\ heap' = heap
    /\ statics' = statics

\* between two calls: the subscriber has dropped its log of the last one
Idle == Op("idle", <<>>, "")

\* the object as a call finds it
Call == Self

Init ==
    /\ sparse = Empty.sparse
    /\ packed = Empty.packed
    /\ bucket = 0
    /\ count = 0
    /\ reserved = 0
    /\ slots = Empty.slots
    /\ log = <<>>
    /\ last = Idle
    /\ heap = constructor(NoHeap, "a")
    /\ statics = NoStatics

Emplace ==
    /\ last = Idle
    /\ \E e \in Valid :
           /\ ~ contains(Self, e)
           /\ Commit(push_slot(emplace(Call, e), e), Op("emplace", <<e>>, ""))

Insert ==
    /\ last = Idle
    /\ \E range \in Ranges :
           /\ Distinct(range)
           /\ \A k \in 1 .. Len(range) : ~ contains(Self, range[k])
           /\ Commit(push_slots(insert(Call, range), range, 1), Op("insert", range, ""))

Erase ==
    /\ last = Idle
    /\ \E e \in Args, ud \in UserData :
           /\ contains(Self, e)
           /\ Commit(erase(Call, e, ud), Passing(Op("erase", <<e>>, ""), ud))

EraseRange ==
    /\ last = Idle
    /\ \E range \in Ranges, ud \in UserData :
           /\ Distinct(range)
           /\ \A k \in 1 .. Len(range) : contains(Self, range[k])
           /\ Commit(erase_range(Call, range, 1, ud),
                  Passing(Op("erase_range", range, ""), ud))

Remove ==
    /\ last = Idle
    /\ \E e \in Args, ud \in UserData :
           Commit(remove(Call, e, ud),
                  Returning(Passing(Op("remove", <<e>>, ""), ud), remove_ret(Call, e)))

RemoveRange ==
    /\ last = Idle
    /\ \E range \in Ranges, ud \in UserData :
           Commit(remove_range(Call, range, 1, ud),
                  Returning(Passing(Op("remove_range", range, ""), ud),
                            remove_range_ret(Call, range, 1, ud, 0)))

Swap ==
    /\ last = Idle
    /\ \E lhs, rhs \in Args :
           /\ contains(Self, lhs)
           /\ contains(Self, rhs)
           /\ Commit(swap(Call, lhs, rhs), Op("swap", <<lhs, rhs>>, ""))

SortN ==
    /\ last = Idle
    /\ \E length \in 0 .. count, cmp \in Compare :
           \E sorted \in std_sort(packed, length, cmp) :
               Commit(sort_n(Call, length, sorted), Op("sort_n", <<length>>, cmp))

Sort ==
    /\ last = Idle
    /\ \E cmp \in Compare :
           \E sorted \in std_sort(packed, count, cmp) :
               Commit(sort(Call, sorted), Op("sort", <<count>>, cmp))

Respect ==
    /\ last = Idle
    /\ \E range \in Others :
           Commit(respect(Call, build(range)), Op("respect", range, ""))

\* respect(*this): the set is its own master
RespectSelf ==
    /\ last = Idle
    /\ Commit(respect(Call, Call), Op("respect_self", <<>>, ""))

Clear ==
    /\ last = Idle
    /\ \E ud \in UserData :
           Commit(clear(Call, ud), Passing(Op("clear", <<>>, ""), ud))

Reserve ==
    /\ last = Idle
    /\ \E cap \in 0 .. MaxCap :
           Commit(reserve(Call, cap), Op("reserve", <<cap>>, ""))

ShrinkToFit ==
    /\ last = Idle
    /\ Commit(shrink_to_fit(Call), Op("shrink_to_fit", <<>>, ""))

\* the call has returned and the subscriber drops its log
Return ==
    /\ last # Idle
    /\ last.op # "emplace_throw"
    /\ log' = <<>>
    /\ last' = Idle
    /\ UNCHANGED <<sparse, packed, bucket, count, reserved, slots, heap, statics>>

Next ==
    \/ Emplace
    \/ Insert
    \/ Erase
    \/ EraseRange
    \/ Remove
    \/ RemoveRange
    \/ Swap
    \/ SortN
    \/ Sort
    \/ Respect
    \/ RespectSelf
    \/ Clear
    \/ Reserve
    \/ ShrinkToFit
    \/ Return

Spec == Init /\ [][Next]_vars

\* emplace ends with an exception: the allocator failed at point
EmplaceThrow ==
    /\ last = Idle
    /\ \E e \in Valid, point \in AllocPoints :
           /\ ~ contains(Self, e)
           /\ allocates(Self, e, point)
           /\ Commit(emplace_throw(Call, e, point), Op("emplace_throw", <<e>>, point))

NextAlloc ==
    \/ Next
    \/ EmplaceThrow

\* the runs in which an allocation may fail; the failed call is the last one
SpecAlloc == Init /\ [][NextAlloc]_vars

\* a call on one of the objects of the program returns
HeapCommit(H, op) ==
    /\ heap' = H
    /\ last' = op
    /\ UNCHANGED <<sparse, packed, bucket, count, reserved, slots, log, statics>>

\* the allocator can serve n more allocate calls
Room(n) == Cardinality(Addr \ DOMAIN heap.mem) >= n

Construct ==
    /\ last = Idle
    /\ \E who \in Sets :
           /\ ~ heap.obj[who].alive
           /\ HeapCommit(constructor(heap, who), On(Op("constructor", <<>>, ""), who, ""))

MoveConstruct ==
    /\ last = Idle
    /\ \E who, other \in Sets :
           /\ ~ heap.obj[who].alive
           /\ heap.obj[other].alive
           /\ HeapCommit(move_constructor(heap, who, other),
                         On(Op("move_constructor", <<>>, ""), who, other))

MoveAssign ==
    /\ last = Idle
    /\ \E who, other \in Sets :
           /\ heap.obj[who].alive
           /\ heap.obj[other].alive
           /\ HeapCommit(move_assignment(heap, who, other),
                         On(Op("move_assignment", <<>>, ""), who, other))

Destroy ==
    /\ last = Idle
    /\ \E who \in Sets :
           /\ heap.obj[who].alive
           /\ HeapCommit(destructor(heap, who), On(Op("destructor", <<>>, ""), who, ""))

\* the identifiers emplaced in the objects of the program: one per page
HeapValid == {e \in Valid : offset(e) = 0}

HeapEmplace ==
    /\ last = Idle
    /\ \E who \in Sets, e \in HeapValid :
           /\ heap.obj[who].alive
           /\ ~ contains(value(heap, who), e)
           /\ Room(Cardinality({point \in AllocPoints :
                                   allocates(value(heap, who), e, point)}))
           /\ HeapCommit(heap_emplace(heap, who, e), On(Op("emplace", <<e>>, ""), who, ""))

HeapErase ==
    /\ last = Idle
    /\ \E who \in Sets, e \in HeapValid :
           /\ heap.obj[who].alive
           /\ contains(value(heap, who), e)
           /\ HeapCommit(heap_erase(heap, who, e), On(Op("erase", <<e>>, ""), who, ""))

HeapShrinkToFit ==
    /\ last = Idle
    /\ Room(1)
    /\ \E who \in Sets :
           /\ heap.obj[who].alive
           /\ HeapCommit(heap_shrink_to_fit(heap, who),
                         On(Op("shrink_to_fit", <<>>, ""), who, ""))

\* the call has returned
HeapReturn ==
    /\ last # Idle
    /\ heap' = [heap EXCEPT !.freed = <<>>]
    /\ last' = Idle
    /\ UNCHANGED <<sparse, packed, bucket, count, reserved, slots, log, statics>>

NextHeap ==
    \/ Construct
    \/ MoveConstruct
    \/ MoveAssign
    \/ Destroy
    \/ HeapEmplace
    \/ HeapErase
    \/ HeapShrinkToFit
    \/ HeapReturn

\* the comparison function objects of the scenario: by index, both ways
ByIndex == {"index_less", "index_greater"}

\* the identifiers of a program that fills a set after reserving room for it
GrowthValid == {compose(i, 0) : i \in 0 .. GrowthIndexes - 1}
GrowthRanges == {r \in SeqsUpTo(GrowthValid, MaxRange) : Distinct(r)}

GrowthEmplace ==
    /\ last = Idle
    /\ \E e \in GrowthValid :
           /\ ~ contains(Self, e)
           /\ Commit(push_slot(emplace(Call, e), e), Op("emplace", <<e>>, ""))

GrowthInsert ==
    /\ last = Idle
    /\ \E range \in GrowthRanges :
           /\ \A k \in 1 .. Len(range) : ~ contains(Self, range[k])
           /\ Commit(push_slots(insert(Call, range), range, 1), Op("insert", range, ""))

NextGrowth ==
    \/ GrowthEmplace
    \/ GrowthInsert
    \/ Reserve
    \/ Return

\* a program that reserves, emplaces and inserts
SpecGrowth == Init /\ [][NextGrowth]_vars

\* every identifier a caller can hold that is not null by its index bits, one
\* generation per index
FullValid == {compose(i, i % (version_mask + 1)) : i \in 0 .. entity_mask - 1}

\* the identifiers of FullValid the set does not hold, lowest index first
Missing(S) == {e \in FullValid : ~ contains(S, e)}
Lowest(set) == CHOOSE e \in set : \A f \in set : to_entity(e) <= to_entity(f)

\* a program that fills the set to the last identifier there is: it emplaces
\* or inserts the lowest indexes the set lacks
FullEmplace ==
    /\ last = Idle
    /\ Missing(Self) # {}
    /\ LET e == Lowest(Missing(Self)) IN
       Commit(push_slot(emplace(Call, e), e), Op("emplace", <<e>>, ""))

FullInsert ==
    /\ last = Idle
    /\ Cardinality(Missing(Self)) >= 2
    /\ LET e == Lowest(Missing(Self))
           f == Lowest(Missing(Self) \ {e})
       IN  Commit(push_slots(insert(Call, <<e, f>>), <<e, f>>, 1),
                  Op("insert", <<e, f>>, ""))

\* the set holds all these identifiers, or all but one
NearlyFull == count >= entity_mask - 1

\* once the set is nearly full the program erases the head of packed, which
\* moves the tail into its place
FullErase ==
    /\ last = Idle
    /\ NearlyFull
    /\ Commit(erase(Call, packed[0], NoUd), Op("erase", <<packed[0]>>, ""))

\* it swaps the head and the tail
FullSwap ==
    /\ last = Idle
    /\ NearlyFull
    /\ Commit(swap(Call, packed[0], packed[count - 1]),
              Op("swap", <<packed[0], packed[count - 1]>>, ""))

FullSort ==
    /\ last = Idle
    /\ \E cmp \in ByIndex :
           Commit(sort(Call, std_sort_total(packed, count, cmp)),
                  Op("sort", <<count>>, cmp))

NextFull ==
    \/ FullEmplace
    \/ FullInsert
    \/ FullErase
    \/ FullSwap
    \/ FullSort
    \/ Return

SpecFull == Init /\ [][NextFull]_vars

\* the types the observer has seen requested, in order
note_request(order, T) ==
    IF \E k \in 1 .. Len(order) : order[k] = T THEN order ELSE Append(order, T)

\* a call of family<...>::type<T>()
FamilyType ==
    /\ last = Idle
    /\ \E fam \in Families, T \in Types :
           LET r == family_type(statics, fam, T) IN
           /\ statics' = [r.statics EXCEPT !.requested[fam] = note_request(@, T)]
           /\ last' = Returning(On(Op("type", <<>>, ""), fam, T), r.ret)
    /\ UNCHANGED <<sparse, packed, bucket, count, reserved, slots, log, heap>>

NextFamily ==
    \/ FamilyType
    \/ Return

\* a program that asks families for type identifiers
SpecFamily == Init /\ [][NextFamily]_vars

\* the scenario inserts the identifiers of index 0, 1, 2, ... in that order,
\* index i in its generation i mod 2
ScenarioEmplace ==
    /\ last = Idle
    /\ count < ScenarioSize
    /\ \E e \in {compose(count, count % (version_mask + 1))} :
           Commit(push_slot(emplace(Call, e), e), Op("emplace", <<e>>, ""))

ScenarioSort ==
    /\ last = Idle
    /\ \E cmp \in ByIndex :
           Commit(sort(Call, std_sort_total(packed, count, cmp)),
                  Op("sort", <<count>>, cmp))

NextScenario ==
    \/ ScenarioEmplace
    \/ ScenarioSort
    \/ Return

\* a program that fills a set with the indexes 0, 1, 2, ... and sorts it
SpecScenario == Init /\ [][NextScenario]_vars

\* a truth value as the integer C++ converts it to
Bool(b) == IF b THEN 1 ELSE 0

\* a comparison of an identifier with a sentinel
CompareSentinel ==
    /\ last = Idle
    /\ \E s \in Sentinels, form \in Forms, e \in Entity :
           last' = Returning(Op(s, <<e>>, form), Bool(compare_sentinel(s, form, e)))
    /\ UNCHANGED <<sparse, packed, bucket, count, reserved, slots, log, heap,
                   statics>>

\* a comparison of a sentinel with itself
CompareSelf ==
    /\ last = Idle
    /\ \E s \in Sentinels, form \in SelfForms :
           last' = Returning(Op(s, <<>>, form), Bool(compare_self(s, form)))
    /\ UNCHANGED <<sparse, packed, bucket, count, reserved, slots, log, heap,
                   statics>>

NextEntity ==
    \/ CompareSentinel
    \/ CompareSelf
    \/ Return

\* a program that compares identifiers of every bit pattern with the sentinels
SpecEntity == Init /\ [][NextEntity]_vars

\* a program with two set objects that constructs, moves and destroys them
SpecHeap == Init /\ [][NextHeap]_vars

---------------------------------------------------------------------------
(* Properties.                                                             *)

Positions == 0 .. count - 1

\* the cell of e is on an allocated page and is not null, read off the arrays
CellSet(e) ==
    /\ page(e) < bucket
    /\ sparse[page(e)] # NoPage
    /\ ~ is_null(sparse[page(e)][offset(e)])

\* some packed entry has the index bits of e
Resident(e) == \E p \in Positions : to_entity(packed[p]) = to_entity(e)

\* C1: the sparse index and the packed array are mutually consistent: the
\* cell of packed[p] holds p for every p < size(), no two packed entries have
\* the same index bits, every non-null cell of an allocated page holds a
\* position p < size() whose packed entry has the cell's index bits, and the
\* cell of an entity that is not in the set is null, on an absent page or
\* beyond the bucket array.
C1_Consistent ==
    /\ DOMAIN sparse = 0 .. bucket - 1
    /\ DOMAIN packed = 0 .. reserved - 1
    /\ \A p \in Positions :
          /\ packed[p] \in Entity
          /\ CellSet(packed[p])
          /\ sparse[page(packed[p])][offset(packed[p])] = p
    /\ \A p, q \in Positions :
          p # q => to_entity(packed[p]) # to_entity(packed[q])
    /\ \A pg \in 0 .. bucket - 1 :
          sparse[pg] # NoPage =>
              \A off \in 0 .. page_size - 1 :
                  LET cell == sparse[pg][off] IN
                  ~ is_null(cell) =>
                      /\ cell \in Positions
                      /\ to_entity(packed[cell]) = pg * page_size + off
    /\ \A e \in Entity : ~ Resident(e) => ~ CellSet(e)

\* an erase of an entity that was not the tail, with both pages allocated
C1_Witness ==
    /\ last.op = "erase"
    /\ count = 2
    /\ bucket = 2
    /\ log[2].pos = 0

\* C2 as stated: contains(e) iff e is an element of packed iff the cell of e
\* is not null, and index(e) is the position of e, for every identifier e
C2_Original ==
    \A e \in Entity :
        /\ contains(Self, e) <=> (\E p \in Positions : packed[p] = e)
        /\ (\E p \in Positions : packed[p] = e) <=> CellSet(e)
        /\ contains(Self, e) => packed[index(Self, e)] = e

\* C2 (amended): for every identifier e, contains(e) iff some element of
\* packed has the index bits of e iff the cell of e is not null, and index(e)
\* is the position of that element; the version bits of e play no part.
C2_ByIndex ==
    \A e \in Entity :
        /\ contains(Self, e) <=> Resident(e)
        /\ Resident(e) <=> CellSet(e)
        /\ contains(Self, e) =>
              /\ index(Self, e) \in Positions
              /\ to_entity(packed[index(Self, e)]) = to_entity(e)

\* the set holds an identifier and is asked about its other generation
C2_Witness ==
    /\ last.op = "erase"
    /\ count = 2
    /\ \E e \in Entity :
          /\ contains(Self, e)
          /\ \A p \in Positions : packed[p] # e

\* the object after the step
SelfNext ==
    [sparse |-> sparse', packed |-> packed', bucket |-> bucket', count |-> count',
     reserved |-> reserved', slots |-> slots', log |-> log']

\* the step is a call of a public member function
IsCall == last = Idle /\ last' # Idle

HookCalls(lg, hook) == {k \in 1 .. Len(lg) : lg[k].hook = hook}

EraseOps == {"erase", "erase_range", "remove", "remove_range", "clear"}

\* the erasures a call has to make, from its arguments and the set it finds
Erasures(op) ==
    CASE op.op = "erase" -> 1
      [] op.op = "erase_range" -> Len(op.args)
      [] op.op = "remove" -> IF Resident(op.args[1]) THEN 1 ELSE 0
      [] op.op = "remove_range" ->
            Cardinality({to_entity(op.args[k]) : k \in
                            {j \in 1 .. Len(op.args) : Resident(op.args[j])}})
      [] op.op = "clear" -> count
      [] OTHER -> 0

\* C3: the number of about_to_erase calls of an operation equals the number
\* of its successful erasures; each about_to_erase(e) fires while e is still
\* contained at its position with size() unchanged, and the very next hook
\* call is one swap_and_pop(pos), fired when e is no longer contained and
\* size() has dropped by one, pos being the position e occupied.
C3_HookProtocol ==
    [][IsCall =>
        /\ Cardinality(HookCalls(log', "about_to_erase")) = Erasures(last')
        /\ Cardinality(HookCalls(log', "swap_and_pop")) = Erasures(last')
        /\ last'.op \in EraseOps => count' = count - Erasures(last')
        /\ \A k \in HookCalls(log', "about_to_erase") :
              LET before == Cardinality({j \in HookCalls(log', "about_to_erase") : j < k})
              IN  /\ log'[k].contained
                  /\ log'[k].size = count - before
                  /\ log'[k].pos < log'[k].size
                  /\ to_entity(log'[k].entry) = to_entity(log'[k].entity)
                  /\ k + 1 \in HookCalls(log', "swap_and_pop")
                  /\ log'[k + 1].entity = log'[k].entity
                  /\ log'[k + 1].pos = log'[k].pos
                  /\ log'[k + 1].size = log'[k].size - 1
                  /\ ~ log'[k + 1].contained
        /\ \A k \in HookCalls(log', "swap_and_pop") :
              k - 1 \in HookCalls(log', "about_to_erase")
    ]_vars

\* a range remove that met one contained and one absent element
C3_Witness ==
    /\ last.op = "remove_range"
    /\ Len(last.args) = 2
    /\ Len(log) = 2
    /\ log[1].hook = "about_to_erase"
    /\ log[2].hook = "swap_and_pop"
    /\ count = 2

\* C4: erase(e) of the entity at position pos of a set of size n with tail
\* t = packed[n-1] leaves size() = n-1, contains(e) false and the cell of e
\* null (also when e is the tail); if e # t then packed[pos] = t and
\* index(t) = pos; every other entity keeps its position and its cell.
C4_SwapAndPop ==
    [][(IsCall /\ last'.op = "erase") =>
        LET e == last'.args[1]
            pos == index(Self, e)
            n == count
            t == packed[n - 1]
        IN  packed[pos] = e =>
              /\ count' = n - 1
              /\ ~ contains(SelfNext, e)
              /\ bucket' = bucket
              /\ sparse'[page(e)] # NoPage
              /\ is_null(sparse'[page(e)][offset(e)])
              /\ e # t =>
                    /\ packed'[pos] = t
                    /\ contains(SelfNext, t)
                    /\ index(SelfNext, t) = pos
              /\ \A p \in 0 .. n - 2 :
                    p # pos =>
                        /\ packed'[p] = packed[p]
                        /\ index(SelfNext, packed[p]) = p
              /\ \A x \in Entity :
                    (to_entity(x) # to_entity(e) /\ to_entity(x) # to_entity(t)
                        /\ page(x) < bucket /\ sparse[page(x)] # NoPage) =>
                        sparse'[page(x)][offset(x)] = sparse[page(x)][offset(x)]
    ]_vars

\* the erased entity was stored at position 0 of three and the tail took its place
C4_Witness ==
    /\ last.op = "erase"
    /\ count = 2
    /\ log[1].entry = log[1].entity
    /\ log[2].pos = 0
    /\ packed[0] # last.args[1]

\* C5: the array kept by the hooks alone (a slot appended per emplaced
\* entity, swap_at exchanging two slots, swap_and_pop moving the last slot
\* into pos and dropping it) is in lockstep with packed at every operation
\* boundary: slot p holds the value attached to packed[p] at its insertion.
C5_Lockstep ==
    /\ DOMAIN slots = Positions
    /\ \A p \in Positions : slots[p] = packed[p]

\* a sort that rotated three entries
C5_Witness ==
    /\ last.op = "sort"
    /\ count = 3
    /\ Len(log) = 3
    /\ log[1].lhs # log[1].rhs
    /\ log[2].lhs # log[2].rhs

\* the number of positions below k at which arr holds e
Occurs(arr, k, e) == Cardinality({p \in 0 .. k - 1 : arr[p] = e})

SortOps == {"sort_n", "sort"}

\* C6: after sort_n(k, cmp), positions 0..k-1 hold a permutation of their
\* previous contents which, read from position k-1 down to 0, is a sequence
\* s with cmp(s[i+1], s[i]) false for every i; positions k..size()-1 and the
\* cells of their entities are unchanged; the multiset of packed entries is
\* unchanged; index(packed[p]) = p for every p; sort(cmp) is sort_n(size(), cmp).
C6_SortN ==
    [][(IsCall /\ last'.op \in SortOps) =>
        LET k == last'.args[1]
            cmp == last'.cmp
            s(i) == packed'[k - 1 - i]
        IN  /\ last'.op = "sort" => k = count
            /\ count' = count
            /\ \A i \in 0 .. k - 2 : ~ compare(cmp, s(i + 1), s(i))
            /\ \A e \in Entity : Occurs(packed', k, e) = Occurs(packed, k, e)
            /\ \A e \in Entity : Occurs(packed', count, e) = Occurs(packed, count, e)
            /\ \A p \in k .. count - 1 :
                  /\ packed'[p] = packed[p]
                  /\ sparse'[page(packed[p])][offset(packed[p])]
                        = sparse[page(packed[p])][offset(packed[p])]
            /\ \A p \in Positions :
                  /\ contains(SelfNext, packed'[p])
                  /\ index(SelfNext, packed'[p]) = p
    ]_vars

\* sort_n of the first two of three entries, which it had to exchange
C6_Witness ==
    /\ last.op = "sort_n"
    /\ last.args = <<2>>
    /\ last.cmp = "less"
    /\ count = 3
    /\ Len(log) = 2

\* the positions from which the sort took the entries now at p, src[p], ...
RECURSIVE Orbit(_, _, _)
Orbit(src, seen, p) ==
    IF p \in seen THEN seen ELSE Orbit(src, seen \cup {p}, src[p])

Min(S) == CHOOSE x \in S : \A y \in S : x <= y

\* the call swap(a, b) made exactly the hook call swap_at(index(a), index(b))
SwapCallsHookOnce ==
    (IsCall /\ last'.op = "swap") =>
        /\ Len(log') = 1
        /\ log'[1].hook = "swap_at"
        /\ log'[1].lhs = index(Self, last'.args[1])
        /\ log'[1].rhs = index(Self, last'.args[2])

\* C7 as stated: swap(a, b) invokes swap_at(index(a), index(b)) exactly once
\* and nothing else, and every swap_at(i, j) of the cycle walk of sort_n
\* exchanges two distinct positions, none made for an element in its place
C7_Original ==
    [][/\ SwapCallsHookOnce
       /\ (IsCall /\ last'.op \in SortOps) =>
            \A k \in 1 .. Len(log') :
                /\ log'[k].hook = "swap_at"
                /\ log'[k].lhs # log'[k].rhs
                /\ packed'[log'[k].lhs] # packed[log'[k].lhs]
                /\ packed'[log'[k].rhs] # packed[log'[k].rhs]
    ]_vars

\* C7 (amended): swap(a, b) invokes swap_at(index(a), index(b)) exactly once
\* and nothing else. The cycle walk of sort_n invokes swap_at only with
\* positions whose entry the sort changed, once per such position: for each
\* cycle of L > 1 positions it makes L calls, of which L-1 exchange two
\* distinct positions and the last is swap_at(p, p), p the lowest position
\* of the cycle.
C7_SwapAtCalls ==
    [][/\ SwapCallsHookOnce
       /\ (IsCall /\ last'.op \in SortOps) =>
            LET k == last'.args[1]
                moved == {p \in 0 .. k - 1 : packed'[p] # packed[p]}
                src == [p \in 0 .. k - 1 |-> index(Self, packed'[p])]
                cycle(p) == Orbit(src, {}, p)
                heads == {p \in moved : p = Min(cycle(p))}
                calls == 1 .. Len(log')
                of(h) == {c \in calls : log'[c].lhs \in cycle(h)}
            IN  /\ Len(log') = Cardinality(moved)
                /\ \A c \in calls :
                      /\ log'[c].hook = "swap_at"
                      /\ log'[c].lhs \in moved
                      /\ log'[c].rhs \in cycle(log'[c].lhs)
                /\ \A h \in heads :
                      /\ Cardinality(of(h)) = Cardinality(cycle(h))
                      /\ \A c \in of(h) :
                            IF \A d \in of(h) : d <= c
                            THEN log'[c].lhs = h /\ log'[c].rhs = h
                            ELSE log'[c].lhs # log'[c].rhs
    ]_vars

\* a sort that exchanged two entries: the second call is swap_at(p, p)
C7_Witness ==
    /\ last.op = "sort"
    /\ Len(log) = 2
    /\ log[1].lhs # log[1].rhs
    /\ log[2].lhs = log[2].rhs

\* scenario 5 of the specification: A = {x, y, z, w} and B = {y, w}, both in
\* insertion order, and the iteration begin() .. end() of A after A.respect(B)
Scenario5 ==
    LET x == compose(0, 0)
        y == compose(1, 0)
        z == compose(2, 0)
        w == compose(3, 0)
    IN  [y |-> y, w |-> w,
         iteration |-> begin_end(respect(build(<<x, y, z, w>>), build(<<y, w>>)))]

\* C8 as stated: after respect(other), any a and b contained in both sets
\* with other.index(a) < other.index(b) have index(a) > index(b) in this set;
\* in scenario 5 the iteration of A starts with y and then w
C8_Original ==
    /\ last.op = "respect" =>
          LET other == build(last.args) IN
          \A a, b \in Entity :
              (/\ contains(Self, a) /\ contains(Self, b)
               /\ contains(other, a) /\ contains(other, b)
               /\ index(other, a) < index(other, b)) =>
                  index(Self, a) > index(Self, b)
    /\ Scenario5.iteration[1] = Scenario5.y
    /\ Scenario5.iteration[2] = Scenario5.w

\* C8 (amended): after respect(other), any a and b contained in both sets
\* with other.index(a) < other.index(b) have index(a) < index(b) in this set
\* too; in scenario 5 the iteration of A starts with w and then y.
C8_SameOrder ==
    /\ last.op = "respect" =>
          LET other == build(last.args) IN
          \A a, b \in Entity :
              (/\ contains(Self, a) /\ contains(Self, b)
               /\ contains(other, a) /\ contains(other, b)
               /\ index(other, a) < index(other, b)) =>
                  index(Self, a) < index(Self, b)
    /\ Scenario5.iteration[1] = Scenario5.w
    /\ Scenario5.iteration[2] = Scenario5.y

\* respect exchanged entries of a set of three for a master holding two of them
C8_Witness ==
    /\ last.op = "respect"
    /\ Len(last.args) = 2
    /\ count = 3
    /\ \A k \in 1 .. 2 : contains(Self, last.args[k])
    /\ Len(log) = 2

\* C9: after respect(other), with n = size() and c the number of entities in
\* both sets, positions n-c..n-1 hold exactly the common entities, in the
\* relative order they have in other; the others occupy 0..n-c-1; the
\* multiset of packed entries is unchanged and other is not modified (seen
\* when other is this very set). This holds when every element is common,
\* when other is empty and when this set is empty.
C9_Respect ==
    [][/\ (IsCall /\ last'.op = "respect") =>
            LET other == build(last'.args)
                n == count
                c == Cardinality({p \in Positions : contains(other, packed[p])})
            IN  /\ count' = n
                /\ \A e \in Entity : Occurs(packed', n, e) = Occurs(packed, n, e)
                /\ \A p \in 0 .. n - 1 :
                      contains(other, packed'[p]) <=> p >= n - c
                /\ \A p, q \in n - c .. n - 1 :
                      p < q <=> index(other, packed'[p]) < index(other, packed'[q])
       /\ (IsCall /\ last'.op = "respect_self") =>
            /\ count' = count
            /\ packed' = packed
            /\ sparse' = sparse
    ]_vars

\* every element of a set of three is common and respect had to reorder them
C9_Witness ==
    /\ last.op = "respect"
    /\ Len(last.args) = 3
    /\ count = 3
    /\ \A k \in 1 .. 3 : contains(Self, last.args[k])
    /\ Len(log) >= 1

\* C10: when an allocation inside emplace(e) fails, contains(e) is false,
\* size() and the packed contents are as before the call, and no sparse cell
\* refers to a position that packed does not hold.
C10_FailedEmplace ==
    [][(IsCall /\ last'.op = "emplace_throw") =>
        LET e == last'.args[1] IN
        /\ ~ contains(SelfNext, e)
        /\ count' = count
        /\ \A p \in Positions : packed'[p] = packed[p]
        /\ \A pg \in 0 .. bucket' - 1 :
              sparse'[pg] # NoPage =>
                  \A off \in 0 .. page_size - 1 :
                      ~ is_null(sparse'[pg][off]) => sparse'[pg][off] < count'
    ]_vars

\* emplace failed in the allocation that grows packed, on a set that is not empty
C10_Witness ==
    /\ last.op = "emplace_throw"
    /\ last.cmp = "packed"
    /\ count >= 1

\* C11: remove(e) is total. For any identifier e, if contains(e) it has the
\* effect of erase(e) and returns true; otherwise it returns false, fires no
\* hook and leaves packed, sparse, size(), capacity() and extent() unchanged.
\* remove(first, last) returns the number of elements of the range that were
\* contained when they were visited.
C11_RemoveTotal ==
    [][/\ (IsCall /\ last'.op = "remove") =>
            LET e == last'.args[1] IN
            IF contains(Self, e)
            THEN /\ last'.ret = 1
                 /\ \E ud \in UserData : SelfNext = erase(Self, e, ud)
            ELSE /\ last'.ret = 0
                 /\ log' = <<>>
                 /\ packed' = packed
                 /\ sparse' = sparse
                 /\ slots' = slots
                 /\ size(SelfNext) = size(Self)
                 /\ capacity(SelfNext) = capacity(Self)
                 /\ extent(SelfNext) = extent(Self)
       /\ (IsCall /\ last'.op = "remove_range") =>
            LET visited == {k \in 1 .. Len(last'.args) :
                               /\ contains(Self, last'.args[k])
                               /\ \A j \in 1 .. k - 1 :
                                     to_entity(last'.args[j]) # to_entity(last'.args[k])}
            IN  /\ last'.ret = Cardinality(visited)
                /\ last'.ret = count - count'
                /\ last'.ret = Cardinality(HookCalls(log', "swap_and_pop"))
    ]_vars

\* remove of an identifier that a set of two does not contain
C11_Witness ==
    /\ last.op = "remove"
    /\ last.ret = 0
    /\ count = 2
    /\ ~ contains(Self, last.args[1])

\* the hook calls of an erasing call received the ud the caller supplied
UdReceived(hook) ==
    (IsCall /\ last'.op \in EraseOps) =>
        \A k \in HookCalls(log', hook) : log'[k].ud = last'.ud

\* C12 as stated: the ud given to erase, remove or clear is passed unchanged
\* to both hooks of every erasure: about_to_erase(e, ud) and
\* swap_and_pop(pos, ud) receive the value the caller supplied
C12_Original ==
    [][UdReceived("about_to_erase") /\ UdReceived("swap_and_pop")]_vars

\* C12 (amended): the ud given to erase, remove or clear is passed unchanged
\* to about_to_erase(e, ud) of every erasure the call causes; swap_and_pop(pos)
\* has the position as its only parameter and receives no ud.
C12_UdForwarded ==
    [][/\ UdReceived("about_to_erase")
       /\ (IsCall /\ last'.op \in EraseOps) =>
             /\ last'.ud \in UserData
             /\ \A k \in HookCalls(log', "swap_and_pop") : log'[k].ud = NoUd
    ]_vars

\* clear of a set of two with a ud that is not the null pointer
C12_Witness ==
    /\ last.op = "clear"
    /\ last.ud = 1
    /\ Len(log) = 4
    /\ log[1].ud = 1
    /\ log[3].ud = 1

\* the sequences begin() .. end() and rbegin() .. rend() of the current state
Forward == traverse(Self, begin(Self), end(Self))
Backward == reverse_traverse(Self, rbegin(Self), rend(Self))
ForwardNext == traverse(SelfNext, begin(SelfNext), end(SelfNext))

Reverse(seq) == [k \in 1 .. Len(seq) |-> seq[Len(seq) + 1 - k]]

MoveOps == {"move_constructor", "move_assignment"}

\* C14: moving a set (move construction or move assignment) gives the
\* destination exactly the source's packed contents, sparse index, size,
\* capacity and extent and leaves the source a valid empty set: size(),
\* capacity() and extent() are 0 and contains(e) is false for every e; a
\* later emplace on, or the destruction of, an object leaves the buffers of
\* the other object allocated and as they were.
C14_Move ==
    [][/\ (IsCall /\ last'.op \in MoveOps /\ last'.who # last'.other) =>
            LET dst == value(heap', last'.who)
                src == value(heap', last'.other)
                old == value(heap, last'.other)
            IN  /\ dst.packed = old.packed
                /\ dst.sparse = old.sparse
                /\ size(dst) = size(old)
                /\ capacity(dst) = capacity(old)
                /\ extent(dst) = extent(old)
                /\ Buffers(heap', last'.who) = Buffers(heap, last'.other)
                /\ heap'.obj[last'.other].alive
                /\ size(src) = 0
                /\ capacity(src) = 0
                /\ extent(src) = 0
                /\ \A e \in Entity : ~ contains(src, e)
                /\ Buffers(heap', last'.other) = {}
       /\ (IsCall /\ last'.op \in {"emplace", "destructor"}) =>
            \A o \in Sets \ {last'.who} :
                heap.obj[o].alive =>
                    /\ Buffers(heap', o) = Buffers(heap, o)
                    /\ Buffers(heap', o) \subseteq DOMAIN heap'.mem
                    /\ Buffers(heap', o) \cap Buffers(heap', last'.who) = {}
                    /\ \A k \in 1 .. Len(heap'.freed) :
                          heap'.freed[k].ptr \notin Buffers(heap, o)
                    /\ value(heap', o) = value(heap, o)
    ]_vars

\* a set of two entities on two pages has been move-constructed from
C14_Witness ==
    /\ last.op = "move_constructor"
    /\ heap.obj[last.who].count = 2
    /\ heap.obj[last.who].bucket = 2
    /\ heap.obj[last.other].alive
    /\ heap.obj[last.other].count = 0

\* the step leaves size(), the packed sequence and the capacity as they were
SamePacked ==
    /\ size(SelfNext) = size(Self)
    /\ \A p \in Positions : packed'[p] = packed[p]

\* the step leaves contains(e), and index(e) of the contained e, as they were
SameIndex ==
    \A e \in Entity :
        /\ contains(SelfNext, e) <=> contains(Self, e)
        /\ contains(Self, e) => index(SelfNext, e) = index(Self, e)

\* C15: capacity() >= size() in every reachable state; reserve(cap) sets
\* capacity() to exactly cap when cap > capacity() and changes nothing
\* otherwise; shrink_to_fit sets capacity() to size(); neither changes
\* size(), the packed sequence, or index(e)/contains(e) of any entity of a
\* non-empty set.
C15_Capacity ==
    /\ [](capacity(Self) >= size(Self))
    /\ [][/\ (IsCall /\ last'.op = "reserve") =>
               LET cap == last'.args[1] IN
               /\ SamePacked
               /\ SameIndex
               /\ IF cap > capacity(Self)
                  THEN capacity(SelfNext) = cap
                  ELSE /\ capacity(SelfNext) = capacity(Self)
                       /\ packed' = packed
                       /\ sparse' = sparse
                       /\ extent(SelfNext) = extent(Self)
          /\ (IsCall /\ last'.op = "shrink_to_fit") =>
               /\ capacity(SelfNext) = size(Self)
               /\ SamePacked
               /\ size(Self) # 0 => SameIndex
       ]_vars

\* reserve(4) on a set of two entities whose capacity was smaller
C15_Witness ==
    /\ last.op = "reserve"
    /\ last.args = <<4>>
    /\ capacity(Self) = 4
    /\ size(Self) = 2

\* the pages of the bucket array that have been allocated
Pages(S) == {pg \in 0 .. S.bucket - 1 : S.sparse[pg] # NoPage}

Max(S) == CHOOSE x \in S : \A y \in S : x >= y

\* the call is shrink_to_fit on an empty set
EmptyingShrink == last'.op = "shrink_to_fit" /\ size(Self) = 0

\* C16: extent() = B * P, B being one more than the highest page index
\* touched by emplace/insert since construction or since the last
\* shrink_to_fit on an empty set: emplace and insert raise B to cover the
\* pages they touch and allocate exactly those pages, shrink_to_fit on an
\* empty set sets extent() to 0, and every other operation (erase, remove,
\* clear, swap, sort, respect, reserve, shrink_to_fit on a non-empty set)
\* leaves extent() and the allocated pages as they were; after an emptying
\* shrink_to_fit emplace re-creates the pages.
C16_PageLifecycle ==
    [][IsCall =>
        /\ extent(SelfNext) = bucket' * page_size
        /\ last'.op \in {"emplace", "insert"} =>
              LET touched == {page(last'.args[k]) : k \in 1 .. Len(last'.args)} IN
              /\ bucket' = Max({bucket} \cup {pg + 1 : pg \in touched})
              /\ Pages(SelfNext) = Pages(Self) \cup touched
              /\ \A k \in 1 .. Len(last'.args) : contains(SelfNext, last'.args[k])
        /\ EmptyingShrink =>
              /\ extent(SelfNext) = 0
              /\ Pages(SelfNext) = {}
        /\ ~ EmptyingShrink => extent(SelfNext) >= extent(Self)
        /\ (last'.op \notin {"emplace", "insert"} /\ ~ EmptyingShrink) =>
              /\ extent(SelfNext) = extent(Self)
              /\ Pages(SelfNext) = Pages(Self)
    ]_vars

\* clear has emptied a set and its two pages are still there
C16_Witness ==
    /\ last.op = "clear"
    /\ Len(log) >= 2
    /\ size(Self) = 0
    /\ extent(Self) = 2 * page_size
    /\ Pages(Self) = {0, 1}

\* C17: insert(first, last) of a range none of whose elements is contained,
\* without duplicates, leaves the same packed sequence, sparse cells, size()
\* and extent() as emplace called for each element in range order; packed
\* grows at most once, before the first element is written: the capacity
\* ends at least size() + distance(first, last), by one growth step when it
\* was smaller and as it was otherwise.
C17_InsertAsEmplace ==
    [][(IsCall /\ last'.op = "insert") =>
        LET range == last'.args
            each == build_loop(Self, range, 1)
            req == size(Self) + Len(range)
        IN  /\ size(SelfNext) = size(each)
            /\ \A p \in 0 .. size(each) - 1 : packed'[p] = each.packed[p]
            /\ sparse' = each.sparse
            /\ extent(SelfNext) = extent(each)
            /\ capacity(SelfNext) >= req
            /\ capacity(SelfNext) =
                  IF capacity(Self) < req
                  THEN Max({req, (size(Self) * 3) \div 2})
                  ELSE capacity(Self)
    ]_vars

\* a range of two on two pages inserted into a set of one
C17_Witness ==
    /\ last.op = "insert"
    /\ Len(last.args) = 2
    /\ page(last.args[1]) # page(last.args[2])
    /\ size(Self) = 3
    /\ capacity(Self) = 3

\* C18: clear(ud) on a set of size n ends after exactly n erasures: the
\* erased entities are packed[n-1], packed[n-2], ..., packed[0] in that
\* order, each erasure removes the tail of the moment and fires
\* about_to_erase followed by swap_and_pop; afterwards size() = 0, no
\* identifier is contained, and capacity() and extent() are unchanged.
C18_Clear ==
    [][(IsCall /\ last'.op = "clear") =>
        LET n == size(Self) IN
        /\ Len(log') = 2 * n
        /\ \A k \in 0 .. n - 1 :
              /\ log'[2 * k + 1].hook = "about_to_erase"
              /\ log'[2 * k + 1].entity = packed[n - 1 - k]
              /\ log'[2 * k + 1].size = n - k
              /\ log'[2 * k + 1].pos = log'[2 * k + 1].size - 1
              /\ log'[2 * k + 2].hook = "swap_and_pop"
              /\ log'[2 * k + 2].pos = n - 1 - k
              /\ log'[2 * k + 2].size = n - 1 - k
        /\ size(SelfNext) = 0
        /\ \A e \in Entity : ~ contains(SelfNext, e)
        /\ capacity(SelfNext) = capacity(Self)
        /\ extent(SelfNext) = extent(Self)
    ]_vars

\* clear of a set of three entities: six hook calls
C18_Witness ==
    /\ last.op = "clear"
    /\ Len(log) = 6
    /\ log[1].size = 3
    /\ size(Self) = 0

\* size, containment and index of every identifier are the same in S and T
SameObservable(S, T) ==
    /\ size(S) = size(T)
    /\ \A x \in Entity :
          /\ contains(S, x) <=> contains(T, x)
          /\ contains(S, x) => index(S, x) = index(T, x)

\* C19: for any identifier e not contained in a set of size k, emplace(e)
\* makes contains(e) true with index(e) = k, and a following erase(e) makes
\* contains(e) false and restores the prior size, packed sequence and index
\* of every other entity; on a fresh set emplace(e); erase(e); emplace(e)
\* yields the same size, containment and index for every identifier as a
\* single emplace(e). The sets are those the program holds between two calls.
C19_RoundTrip ==
    \A e \in Args \ {null} :
        /\ (last = Idle /\ ~ contains(Self, e)) =>
              \A with \in {emplace(Self, e)} :
                  \A without \in {erase(with, e, 0)} :
                      LET k == size(Self) IN
                      /\ contains(with, e)
                      /\ index(with, e) = k
                      /\ size(with) = k + 1
                      /\ ~ contains(without, e)
                      /\ size(without) = k
                      /\ \A p \in 0 .. k - 1 : without.packed[p] = packed[p]
                      /\ SameObservable(without, Self)
        /\ (last = Idle /\ Self = Empty) =>
              \A once \in {emplace(Self, e)} :
                  \A again \in {emplace(erase(once, e, 0), e)} :
                      /\ contains(again, e)
                      /\ SameObservable(again, once)

\* erase has removed the tail of a set of three, as emplace(e); erase(e) does
C19_Witness ==
    /\ last.op = "erase"
    /\ Len(log) = 2
    /\ log[1].pos = size(Self)
    /\ size(Self) = 2
    /\ ~ contains(Self, last.args[1])
    /\ reserved > count

\* the bits lo .. lo + width - 1 of e are all ones
AllOnes(e, lo, width) == \A i \in lo .. lo + width - 1 : (e \div 2^i) % 2 = 1

\* the number of version bits
version_bits == CHOOSE n \in 0 .. size_bits : 2^n = version_mask + 1

\* C20: for every identifier e of the bounded identifier space, e == null
\* iff the index bits of e are all ones (version ignored) and e == tombstone
\* iff the version bits of e are all ones (index ignored); both comparisons
\* are symmetric and != is their exact negation; null == null and
\* tombstone == tombstone; the all-zero identifier equals neither and the
\* identifier with every bit set equals both.
C20_Sentinels ==
    /\ (last.op \in Sentinels /\ last.cmp \in Forms) =>
          LET e == last.args[1]
              ones == IF last.op = "null"
                      THEN AllOnes(e, 0, entity_shift)
                      ELSE AllOnes(e, entity_shift, version_bits)
          IN  /\ last.cmp \in {"e == s", "s == e"} => last.ret = Bool(ones)
              /\ last.cmp \in {"e != s", "s != e"} => last.ret = Bool(~ ones)
              /\ e = 0 => last.ret = Bool(last.cmp \in {"e != s", "s != e"})
              /\ e = 2^(entity_shift + version_bits) - 1 =>
                    last.ret = Bool(last.cmp \in {"e == s", "s == e"})
    /\ (last.op \in Sentinels /\ last.cmp \in SelfForms) =>
          last.ret = Bool(last.cmp = "s == s")

\* an identifier with the index bits all ones and version 0 compared with null
C20_Witness ==
    /\ last.op = "null"
    /\ last.cmp = "e == s"
    /\ last.args = <<compose(entity_mask, 0)>>
    /\ last.ret = 1

\* the set holds the indexes 0 .. ScenarioSize - 1 and sort was called with
\* the comparison by descending index
SortedDescending ==
    /\ last.op = "sort"
    /\ last.cmp = "index_greater"
    /\ size(Self) = ScenarioSize

\* C21 as stated: after inserting the indexes 0..9 in that order and calling
\* sort with cmp = by-index-descending, begin()..end() yields the identifier
\* with index 0 first through the one with index 9 last and data()[0] has
\* index 9
C21_Original ==
    SortedDescending =>
        /\ \A k \in 1 .. ScenarioSize : to_entity(Forward[k]) = k - 1
        /\ to_entity(data(Self)[0]) = ScenarioSize - 1

\* C21 (amended): after inserting the indexes 0..9 in that order and calling
\* sort with cmp = by-index-descending, begin()..end() yields the identifier
\* with index 9 first through the one with index 0 last and data()[0] has
\* index 0.
C21_DescendingFirst ==
    SortedDescending =>
        /\ \A k \in 1 .. ScenarioSize : to_entity(Forward[k]) = ScenarioSize - k
        /\ to_entity(data(Self)[0]) = 0
        /\ \A k \in 1 .. ScenarioSize - 1 :
              ~ compare(last.cmp, Forward[k + 1], Forward[k])

\* the scenario itself: the set was in insertion order, so the sort moved nothing
C21_Witness ==
    /\ SortedDescending
    /\ log = <<>>
    /\ \A p \in Positions : to_entity(packed[p]) = p

\* the types requested from a specialization so far
Requested(fam) ==
    {statics.requested[fam][k] : k \in 1 .. Len(statics.requested[fam])}

\* C22: within one family specialization, type<T>() returns the same
\* identifier on every call for a given T, two distinct types never receive
\* the same identifier, and the identifiers handed out are 0, 1, 2, ... with
\* no gap, in the order in which each type is first requested.
C22_FamilyIds ==
    /\ [](/\ \A fam \in Families :
              /\ \A k \in 1 .. Len(statics.requested[fam]) :
                    statics.type[fam][statics.requested[fam][k]] = k - 1
              /\ \A T \in Requested(fam), U \in Requested(fam) :
                    T # U => statics.type[fam][T] # statics.type[fam][U]
          /\ last.op = "type" =>
                /\ last.other \in Requested(last.who)
                /\ last.ret = statics.type[last.who][last.other])
    /\ [][\A fam \in Families : \A T \in Requested(fam) :
              statics'.type[fam][T] = statics.type[fam][T]]_vars

\* a type is asked about again after every type of its specialization has an
\* identifier, while the other specialization has handed out fewer
C22_Witness ==
    /\ last.op = "type"
    /\ Requested(last.who) = Types
    /\ last.ret = 0
    /\ \E fam \in Families : Requested(fam) # {} /\ Requested(fam) # Types

\* a call of emplace or insert that has to grow packed
Grows ==
    /\ IsCall
    /\ last'.op \in {"emplace", "insert"}
    /\ size(Self) + Len(last'.args) > capacity(Self)

\* C23: whenever emplace or insert has to grow packed because the requested
\* size req exceeds capacity(), the new capacity is
\* max(req, floor(1.5 * previous capacity)), for insert also when capacity()
\* was larger than size() before the call.
C23_GrowthByCapacity ==
    [][Grows =>
        capacity(SelfNext) =
            Max({size(Self) + Len(last'.args), (capacity(Self) * 3) \div 2})
    ]_vars

\* what grow_packed_if_required does instead: the factor applies to size()
C23_GrowthBySize ==
    [][Grows =>
        capacity(SelfNext) =
            Max({size(Self) + Len(last'.args), (size(Self) * 3) \div 2})
    ]_vars

\* insert of two identifiers into a set of three has grown packed to five
\* entries, where one and a half times any capacity above three is six
C23_Witness ==
    /\ last.op = "insert"
    /\ Len(last.args) = 2
    /\ size(Self) = 5
    /\ capacity(Self) = 5

\* the set objects that own the buffer at an address
Owners(a) == {o \in Sets : heap.obj[o].alive /\ a \in Buffers(heap, o)}

\* C24: every bucket array, page and packed buffer that has been allocated
\* and not deallocated is owned by exactly one set, also after move
\* construction and move assignment (move-assigning onto a set that holds
\* buffers releases them), and destroying every set leaves no buffer
\* allocated.
C24_ExclusiveOwnership ==
    /\ \A a \in DOMAIN heap.mem : Cardinality(Owners(a)) = 1
    /\ (\A o \in Sets : ~ heap.obj[o].alive) => DOMAIN heap.mem = {}

\* a move assignment onto a set that held buffers has returned and these
\* buffers are allocated still, with no set that owns them
C24_Witness ==
    /\ last.op = "move_assignment"
    /\ last.who # last.other
    /\ heap.freed = <<>>
    /\ \E a \in DOMAIN heap.mem : Owners(a) = {}

\* the packed positions whose entry has the index bits of e
Entries(e) == {p \in Positions : to_entity(packed[p]) = to_entity(e)}

\* C25: contains, index and find depend only on the index bits of their
\* argument: for any two identifiers with equal index bits and different
\* version bits, contains agrees, and when contained index and find agree
\* and refer to the single packed entry that has those index bits.
C25_IndexBitsOnly ==
    \A e \in Entity, f \in Entity :
        (to_entity(e) = to_entity(f) /\ to_version(e) # to_version(f)) =>
            /\ contains(Self, e) <=> contains(Self, f)
            /\ find(Self, e) = find(Self, f)
            /\ contains(Self, e) =>
                  /\ index(Self, e) = index(Self, f)
                  /\ Entries(e) = {index(Self, e)}
                  /\ find(Self, e) # end(Self)
                  /\ iterator_dereference(Self, find(Self, e)) = packed[index(Self, e)]
            /\ ~ contains(Self, e) =>
                  /\ Entries(e) = {}
                  /\ find(Self, e) = end(Self)

\* an identifier is looked up in a generation the set does not hold, and is
\* found in the middle of a set of three
C25_Witness ==
    /\ size(Self) = 3
    /\ \E e \in Entity :
          /\ contains(Self, e)
          /\ packed[index(Self, e)] # e
          /\ find(Self, e) = 2

\* the cells of the allocated pages that hold a position
Written ==
    {c \in {<<pg, off>> : pg \in 0 .. bucket - 1, off \in 0 .. page_size - 1} :
        sparse[c[1]] # NoPage /\ sparse[c[1]][c[2]] # null}

\* C26: provided no identifier equal to null is ever emplaced or inserted,
\* size() <= entity_mask in every reachable state, so every position written
\* into a sparse cell by emplace, insert, erase, swap or sort_n is smaller
\* than entity_mask, has zero version bits, and compares unequal to null.
C26_PositionNeverNull ==
    /\ size(Self) <= entity_mask
    /\ \A c \in Written :
          LET cell == sparse[c[1]][c[2]] IN
          /\ cell < entity_mask
          /\ cell < size(Self)
          /\ to_version(cell) = 0
          /\ ~ is_null(cell)
    /\ \A p \in Positions :
          /\ <<page(packed[p]), offset(packed[p])>> \in Written
          /\ index(Self, packed[p]) = p

\* the set holds every identifier that is not null and a swap has written the
\* last position there is into a cell
C26_Witness ==
    /\ last.op = "swap"
    /\ size(Self) = entity_mask
    /\ index(Self, last.args[1]) = entity_mask - 1
    /\ Len(log) = 1

\* the deallocate calls of the last operation
Deallocations == {heap.freed[k] : k \in 1 .. Len(heap.freed)}

\* C27: every deallocation issued by the set is for a buffer previously
\* obtained from allocate and not yet deallocated: none is issued for an
\* absent page of the bucket array, and no page, bucket array or packed
\* buffer is deallocated twice, also when destruction follows an emptying
\* shrink_to_fit or a move.
C27_DeallocatesAllocated == \A d \in Deallocations : d.live

\* the part of it the code keeps: a pointer that is not null is deallocated
\* while allocated, never twice
C27_NoDoubleFree == \A d \in Deallocations : d.ptr # nullptr => d.live

\* the destructor of a set whose bucket array had an absent page has issued a
\* deallocation for the null pointer in its place
C27_Witness ==
    /\ last.op = "destructor"
    /\ \E d \in Deallocations : d.ptr = nullptr /\ ~ d.live
    /\ \E d \in Deallocations : d.live

===========================================================================
